---- MODULE Spec2Model ----
(***************************************************************************)
(* Model of the voice-relay bot of src/main.py: the handlers start and     *)
(* handle_voice, the resolver get_answer with its Redis cache, and the     *)
(* synthesizer voice_text.  One action is one awaited external call        *)
(* together with the code that runs up to the next await: between two      *)
(* awaits a coroutine of the single-threaded event loop is not             *)
(* interrupted, and at every await the tasks of other messages may run.    *)
(***************************************************************************)
EXTENDS Naturals, Sequences, FiniteSets, TLC

(* ------------------------------ bounds --------------------------------- *)

\* size of the range hash() is abstracted to (the code's is 2^64)
HashSpace == 2
\* seconds that pass in one step of the clock
TickStep == 1800

(* -------------------------- program constants -------------------------- *)

\* src/main.py:62  ex=3600
CacheTtl == 3600

FallbackAnswer == "Sorry, I couldn't understand that."
TranscribeApology == "Sorry, I couldn't transcribe your voice message."
VoiceApology == "Sorry, I couldn't voice the answer."
Greeting == "Hi! Send me a voice message to get started."

(* ------------------------------ inputs --------------------------------- *)

\* the inbound messages the model follows, by message id, and who sent each
Msgs == {1, 2}
from_user(m) == IF m = 1 THEN "alice" ELSE "bob"
\* transcripts the transcription service may return
Questions == {"q1", "q2"}
\* texts the generation service may return (the empty text included)
Answers == {"", "4"}
\* audio the text-to-speech service may return
AudioBytes == {"AUDIO1", "AUDIO2"}
HashVals == 0..(HashSpace - 1)

(* -------------------------------- state -------------------------------- *)

VARIABLES
    hashfn,   \* hash() of this process lifetime: Questions -> HashVals
    cache,    \* the Redis store: key -> entry (value, seconds left to live)
    task      \* per inbound message: the handler's position and locals

vars == <<hashfn, cache, task>>

\* Python's None, and a value that is not None, as sequences of length 0 / 1
None == <<>>
Some(v) == <<v>>

get_redis_key(message_id) == <<"openai_response_", message_id>>

Keys == {get_redis_key(h) : h \in HashVals}

\* redis.set(key, str) stores the UTF-8 bytes of the string; .decode("utf-8")
\* gives the string back.  Bytes are kept apart from strings by a tag.
Encode(s) == <<"utf8", s>>
Decode(b) == b[2]

NoEntry == [val |-> None, ttl |-> 0]

\* bool(cached_response): None and the empty bytes are both falsy
Truthy(cached_response) ==
    /\ cached_response # None
    /\ Decode(cached_response[1]) # ""

\* GET key: the stored bytes, or None when absent or expired
RedisGet(key) ==
    IF cache[key].ttl > 0 THEN cache[key].val ELSE None

\* SET key value EX ttl: overwrites unconditionally
RedisSet(key, value, ex) ==
    [cache EXCEPT ![key] = [val |-> Some(Encode(value)), ttl |-> ex]]

IdleTask ==
    [pc |-> "idle", question |-> "", redis_key |-> get_redis_key(0),
     answer |-> "", voice |-> None, log |-> <<>>]

\* the record of one external call: its name, whether it returned, and what
\* it returned (or, for a send, what was sent)
Call(op, ok, val) == [op |-> op, ok |-> ok, val |-> val]

Logged(m, op, ok, val) == Append(task[m].log, Call(op, ok, val))

InFlight(m) == task[m].pc \notin {"idle", "done"}

(* -------------------------------- Init --------------------------------- *)

Init ==
    /\ hashfn \in [Questions -> HashVals]
    /\ cache = [k \in Keys |-> NoEntry]
    /\ task = [m \in Msgs |-> IdleTask]

(* ------------------------- process and clock --------------------------- *)

\* __main__: the process is started again.  hash() of a str is keyed by a
\* value drawn at interpreter start, so the new lifetime has some hash
\* function, not necessarily the old one.  The Redis store is another
\* process and keeps its entries.  The model follows the restarts that
\* happen while no handler is in flight.
Restart ==
    /\ \A m \in Msgs : ~InFlight(m)
    /\ hashfn' \in [Questions -> HashVals]
    /\ UNCHANGED <<cache, task>>

\* TickStep seconds pass: every entry has that much less to live, and Redis
\* drops the entries whose time is up.  With no entry in the store the
\* passing of time changes nothing.
Tick ==
    /\ \E k \in Keys : cache[k] # NoEntry
    /\ cache' = [k \in Keys |->
                   IF cache[k].ttl > TickStep
                   THEN [cache[k] EXCEPT !.ttl = @ - TickStep]
                   ELSE NoEntry]
    /\ UNCHANGED <<hashfn, task>>

(* ------------------------------- start --------------------------------- *)

\* the dispatcher hands a /start command to start()
ReceiveStart(m) ==
    /\ task[m].pc = "idle"
    /\ task' = [task EXCEPT ![m] = [@ EXCEPT !.pc = "start_reply"]]
    /\ UNCHANGED <<hashfn, cache>>

\* StartReply with no try around the send: a send that raises leaves
\* start() and reaches the dispatcher
StartReplyEscapes(m) ==
    /\ task[m].pc = "start_reply"
    /\ \E ok \in BOOLEAN :
         task' = [task EXCEPT ![m] =
                    [@ EXCEPT !.pc = IF ok THEN "done" ELSE "raised",
                              !.log = Logged(m, "reply", ok, Some(Greeting))]]
    /\ UNCHANGED <<hashfn, cache>>

\* start(): await message.reply(greeting); a raise is logged and suppressed
StartReply(m) ==
    /\ task[m].pc = "start_reply"
    /\ \E ok \in BOOLEAN :
         task' = [task EXCEPT ![m] =
                    [@ EXCEPT !.pc = "done",
                              !.log = Logged(m, "reply", ok, Some(Greeting))]]
    /\ UNCHANGED <<hashfn, cache>>

(* ---------------------------- handle_voice ----------------------------- *)

\* the dispatcher hands a voice message to handle_voice()
ReceiveVoice(m) ==
    /\ task[m].pc = "idle"
    /\ task' = [task EXCEPT ![m] = [@ EXCEPT !.pc = "get_file"]]
    /\ UNCHANGED <<hashfn, cache>>

\* await bot.get_file(...) returns
GetFileOk(m) ==
    /\ task[m].pc = "get_file"
    /\ task' = [task EXCEPT ![m] =
                  [@ EXCEPT !.pc = "transcribe",
                            !.log = Logged(m, "get_file", TRUE, None)]]
    /\ UNCHANGED <<hashfn, cache>>

\* await bot.get_file(...) raises: the outer except logs it, the handler ends
GetFileRaises(m) ==
    /\ task[m].pc = "get_file"
    /\ task' = [task EXCEPT ![m] =
                  [@ EXCEPT !.pc = "done",
                            !.log = Logged(m, "get_file", FALSE, None)]]
    /\ UNCHANGED <<hashfn, cache>>

\* TranscribeOk with the two calls after it swapped: voice_text is awaited
\* before get_answer
TranscribeOkVoiceFirst(m) ==
    /\ task[m].pc = "transcribe"
    /\ \E q \in Questions :
         task' = [task EXCEPT ![m] =
                    [@ EXCEPT !.pc = "synthesize",
                              !.question = q,
                              !.redis_key = get_redis_key(hashfn[q]),
                              !.log = Logged(m, "transcribe", TRUE, Some(q))]]
    /\ UNCHANGED <<hashfn, cache>>

\* await whisper.transcribe(...) returns a text: question is set, get_answer
\* is entered and derives redis_key from hash(question)
TranscribeOk(m) ==
    /\ task[m].pc = "transcribe"
    /\ \E q \in Questions :
         task' = [task EXCEPT ![m] =
                    [@ EXCEPT !.pc = "cache_get",
                              !.question = q,
                              !.redis_key = get_redis_key(hashfn[q]),
                              !.log = Logged(m, "transcribe", TRUE, Some(q))]]
    /\ UNCHANGED <<hashfn, cache>>

\* TranscribeRaises whose except only logs and returns: no apology is sent
TranscribeRaisesNoApology(m) ==
    /\ task[m].pc = "transcribe"
    /\ \E returned \in BOOLEAN :
         task' = [task EXCEPT ![m] =
                    [@ EXCEPT !.pc = "done",
                              !.log = Logged(m, "transcribe", returned, None)]]
    /\ UNCHANGED <<hashfn, cache>>

\* await whisper.transcribe(...) raises (returned = FALSE), or returns a
\* result without "text" so that transcription["text"] raises (returned =
\* TRUE): the inner except goes on to the apology
TranscribeRaises(m) ==
    /\ task[m].pc = "transcribe"
    /\ \E returned \in BOOLEAN :
         task' = [task EXCEPT ![m] =
                    [@ EXCEPT !.pc = "reply_transcribe",
                              !.log = Logged(m, "transcribe", returned, None)]]
    /\ UNCHANGED <<hashfn, cache>>

\* ReplyTranscribeApology without its return: the handler goes on to voice
\* an answer after the apology
ReplyTranscribeApologyNoReturn(m) ==
    /\ task[m].pc = "reply_transcribe"
    /\ \E ok \in BOOLEAN :
         task' = [task EXCEPT ![m] =
                    [@ EXCEPT !.pc = "synthesize",
                              !.log = Logged(m, "reply", ok, Some(TranscribeApology))]]
    /\ UNCHANGED <<hashfn, cache>>

\* ReplyTranscribeApology with no outer try around it: a send that raises
\* inside the inner except leaves handle_voice and reaches the dispatcher
ReplyTranscribeApologyEscapes(m) ==
    /\ task[m].pc = "reply_transcribe"
    /\ \E ok \in BOOLEAN :
         task' = [task EXCEPT ![m] =
                    [@ EXCEPT !.pc = IF ok THEN "done" ELSE "raised",
                              !.log = Logged(m, "reply", ok, Some(TranscribeApology))]]
    /\ UNCHANGED <<hashfn, cache>>

\* await message.reply(transcription apology), then return; a raise inside
\* the inner except is caught by the outer except
ReplyTranscribeApology(m) ==
    /\ task[m].pc = "reply_transcribe"
    /\ \E ok \in BOOLEAN :
         task' = [task EXCEPT ![m] =
                    [@ EXCEPT !.pc = "done",
                              !.log = Logged(m, "reply", ok, Some(TranscribeApology))]]
    /\ UNCHANGED <<hashfn, cache>>

(* ----------------------------- get_answer ------------------------------ *)

\* await redis.get(redis_key) returns: a truthy response is decoded and
\* returned to handle_voice, anything else goes on to the generation call
CacheGetOk(m) ==
    /\ task[m].pc = "cache_get"
    /\ LET cached_response == RedisGet(task[m].redis_key) IN
         task' = [task EXCEPT ![m] =
                    IF Truthy(cached_response)
                    THEN [@ EXCEPT !.pc = "synthesize",
                                   !.answer = Decode(cached_response[1]),
                                   !.log = Logged(m, "cache_get", TRUE, cached_response)]
                    ELSE [@ EXCEPT !.pc = "generate",
                                   !.log = Logged(m, "cache_get", TRUE, cached_response)]]
    /\ UNCHANGED <<hashfn, cache>>

\* await redis.get(redis_key) raises: the call is outside get_answer's try,
\* so get_answer raises into handle_voice, whose outer except ends the handler
CacheGetRaises(m) ==
    /\ task[m].pc = "cache_get"
    /\ task' = [task EXCEPT ![m] =
                  [@ EXCEPT !.pc = "done",
                            !.log = Logged(m, "cache_get", FALSE, None)]]
    /\ UNCHANGED <<hashfn, cache>>

\* await assistant.create(...) returns: answer = response.output.text
GenerateOk(m) ==
    /\ task[m].pc = "generate"
    /\ \E a \in Answers :
         task' = [task EXCEPT ![m] =
                    [@ EXCEPT !.pc = "cache_set",
                              !.answer = a,
                              !.log = Logged(m, "generate", TRUE, Some(a))]]
    /\ UNCHANGED <<hashfn, cache>>

\* GenerateRaises that also stores the fallback under the key
GenerateRaisesCachingFallback(m) ==
    /\ task[m].pc = "generate"
    /\ cache' = RedisSet(task[m].redis_key, FallbackAnswer, CacheTtl)
    /\ task' = [task EXCEPT ![m] =
                  [@ EXCEPT !.pc = "synthesize",
                            !.answer = FallbackAnswer,
                            !.log = Logged(m, "generate", FALSE, None)]]
    /\ UNCHANGED hashfn

\* GenerateRaises that returns the wrong apology
GenerateRaisesWrongText(m) ==
    /\ task[m].pc = "generate"
    /\ task' = [task EXCEPT ![m] =
                  [@ EXCEPT !.pc = "synthesize",
                            !.answer = VoiceApology,
                            !.log = Logged(m, "generate", FALSE, None)]]
    /\ UNCHANGED <<hashfn, cache>>

\* await assistant.create(...) raises: get_answer returns the fallback
GenerateRaises(m) ==
    /\ task[m].pc = "generate"
    /\ task' = [task EXCEPT ![m] =
                  [@ EXCEPT !.pc = "synthesize",
                            !.answer = FallbackAnswer,
                            !.log = Logged(m, "generate", FALSE, None)]]
    /\ UNCHANGED <<hashfn, cache>>

\* await redis.set(redis_key, answer, ex=3600) returns: get_answer returns answer
CacheSetOk(m) ==
    /\ task[m].pc = "cache_set"
    /\ cache' = RedisSet(task[m].redis_key, task[m].answer, CacheTtl)
    /\ task' = [task EXCEPT ![m] =
                  [@ EXCEPT !.pc = "synthesize",
                            !.log = Logged(m, "cache_set", TRUE, Some(task[m].answer))]]
    /\ UNCHANGED hashfn

\* await redis.set(...) raises inside the try: the same except as for the
\* generation call, so get_answer returns the fallback
CacheSetRaises(m) ==
    /\ task[m].pc = "cache_set"
    /\ task' = [task EXCEPT ![m] =
                  [@ EXCEPT !.pc = "synthesize",
                            !.answer = FallbackAnswer,
                            !.log = Logged(m, "cache_set", FALSE, Some(task[m].answer))]]
    /\ UNCHANGED <<hashfn, cache>>

(* ----------------------------- voice_text ------------------------------ *)

\* await openai.audio.speech.create(...) returns: voice_text returns an
\* InputMediaAudio, which is truthy, so handle_voice goes on to answer_audio
SynthesizeOk(m) ==
    /\ task[m].pc = "synthesize"
    /\ \E audio \in AudioBytes :
         task' = [task EXCEPT ![m] =
                    [@ EXCEPT !.pc = "answer_audio",
                              !.voice = Some([media |-> audio, caption |-> task[m].answer]),
                              !.log = Logged(m, "synthesize", TRUE, Some(audio))]]
    /\ UNCHANGED <<hashfn, cache>>

\* SynthesizeRaises with voice_text's try missing: the error reaches
\* handle_voice's outer except
SynthesizeRaisesToCaller(m) ==
    /\ task[m].pc = "synthesize"
    /\ task' = [task EXCEPT ![m] =
                  [@ EXCEPT !.pc = "done",
                            !.log = Logged(m, "synthesize", FALSE, None)]]
    /\ UNCHANGED <<hashfn, cache>>

\* await openai.audio.speech.create(...) raises: voice_text returns None
SynthesizeRaises(m) ==
    /\ task[m].pc = "synthesize"
    /\ task' = [task EXCEPT ![m] =
                  [@ EXCEPT !.pc = "reply_voice",
                            !.voice = None,
                            !.log = Logged(m, "synthesize", FALSE, None)]]
    /\ UNCHANGED <<hashfn, cache>>

(* -------------------------------- reply -------------------------------- *)

\* AnswerAudio with answer kept in a variable all handlers share: the
\* caption is the answer some handler resolved last
AnswerAudioSharedAnswer(m) ==
    /\ task[m].pc = "answer_audio"
    /\ \E ok \in BOOLEAN : \E o \in Msgs :
         /\ task[o].pc \in {"synthesize", "answer_audio", "reply_voice"}
         /\ task' = [task EXCEPT ![m] =
                       [@ EXCEPT !.pc = "done",
                                 !.log = Logged(m, "answer_audio", ok,
                                                <<task[m].voice[1].media, task[o].answer>>)]]
    /\ UNCHANGED <<hashfn, cache>>

\* AnswerAudio behind a lock that every handler in flight holds
AnswerAudioAfterOthers(m) ==
    /\ \A o \in Msgs \ {m} : ~InFlight(o)
    /\ task[m].pc = "answer_audio"
    /\ \E ok \in BOOLEAN :
         task' = [task EXCEPT ![m] =
                    [@ EXCEPT !.pc = "done",
                              !.log = Logged(m, "answer_audio", ok,
                                             <<task[m].voice[1].media, task[m].answer>>)]]
    /\ UNCHANGED <<hashfn, cache>>

\* await message.answer_audio(voice.media, caption=answer)
AnswerAudio(m) ==
    /\ task[m].pc = "answer_audio"
    /\ \E ok \in BOOLEAN :
         task' = [task EXCEPT ![m] =
                    [@ EXCEPT !.pc = "done",
                              !.log = Logged(m, "answer_audio", ok,
                                             <<task[m].voice[1].media, task[m].answer>>)]]
    /\ UNCHANGED <<hashfn, cache>>

\* ReplyVoiceApology that sends again when the send raises
ReplyVoiceApologyRetrying(m) ==
    /\ task[m].pc = "reply_voice"
    /\ \E ok \in BOOLEAN :
         task' = [task EXCEPT ![m] =
                    [@ EXCEPT !.pc = IF ok THEN "done" ELSE "reply_voice",
                              !.log = Logged(m, "reply", ok, Some(VoiceApology))]]
    /\ UNCHANGED <<hashfn, cache>>

\* await message.reply(synthesis apology)
ReplyVoiceApology(m) ==
    /\ task[m].pc = "reply_voice"
    /\ \E ok \in BOOLEAN :
         task' = [task EXCEPT ![m] =
                    [@ EXCEPT !.pc = "done",
                              !.log = Logged(m, "reply", ok, Some(VoiceApology))]]
    /\ UNCHANGED <<hashfn, cache>>

(* ---------------------------- specification ---------------------------- *)

Next ==
    \/ Restart
    \/ Tick
    \/ \E m \in Msgs : ReceiveStart(m)
    \/ \E m \in Msgs : StartReply(m)
    \/ \E m \in Msgs : ReceiveVoice(m)
    \/ \E m \in Msgs : GetFileOk(m)
    \/ \E m \in Msgs : GetFileRaises(m)
    \/ \E m \in Msgs : TranscribeOk(m)
    \/ \E m \in Msgs : TranscribeRaises(m)
    \/ \E m \in Msgs : ReplyTranscribeApology(m)
    \/ \E m \in Msgs : CacheGetOk(m)
    \/ \E m \in Msgs : CacheGetRaises(m)
    \/ \E m \in Msgs : GenerateOk(m)
    \/ \E m \in Msgs : GenerateRaises(m)
    \/ \E m \in Msgs : CacheSetOk(m)
    \/ \E m \in Msgs : CacheSetRaises(m)
    \/ \E m \in Msgs : SynthesizeOk(m)
    \/ \E m \in Msgs : SynthesizeRaises(m)
    \/ \E m \in Msgs : AnswerAudio(m)
    \/ \E m \in Msgs : ReplyVoiceApology(m)

Spec == Init /\ [][Next]_vars

(* ------------------------- reading a handler's log --------------------- *)

Log(m) == task[m].log

\* the positions of the log of m that record a call of op
Calls(m, op) == {i \in DOMAIN Log(m) : Log(m)[i].op = op}

\* the call of op that has returned normally, if any
Returned(m, op) == {i \in Calls(m, op) : Log(m)[i].ok}
Raised(m, op) == {i \in Calls(m, op) : ~Log(m)[i].ok}

\* the outbound messages handle_voice or start has tried to send
Sends(m) == Calls(m, "reply") \cup Calls(m, "answer_audio")

\* transcription gave a text for m
Transcribed(m) == \E i \in Returned(m, "transcribe") : Log(m)[i].val # None

\* get_answer has returned a string to handle_voice
GetAnswerReturned(m) ==
    task[m].pc \in {"synthesize", "answer_audio", "reply_voice"}
    \/ Calls(m, "synthesize") # {}

(* ------------------------------- C1 ------------------------------------ *)

\* C1: whenever the cache read of a message returned a stored value v,
\* whatever v is, get_answer returns v to handle_voice, and the message
\* makes no generation call and no cache write.
C1_CacheHitShortCircuit ==
    \A m \in Msgs : \A i \in Returned(m, "cache_get") :
        Log(m)[i].val # None =>
            /\ Calls(m, "generate") = {}
            /\ Calls(m, "cache_set") = {}
            /\ task[m].pc # "generate"
            /\ task[m].answer = Decode(Log(m)[i].val[1])

(* ------------------------------- C2 ------------------------------------ *)

\* C2: whatever the cache read, the generation call and the cache write do,
\* get_answer returns a string: a handler whose transcription succeeded and
\* that has ended has been through the synthesize stage.
C2_ResolveNeverFailsOutward ==
    \A m \in Msgs :
        (Transcribed(m) /\ task[m].pc = "done") =>
            /\ GetAnswerReturned(m)
            /\ Calls(m, "synthesize") # {}

(* ------------------------------- C3 ------------------------------------ *)

\* the step in which get_answer of m returns after a generation call that
\* succeeded (the cache write returned or raised)
ReturnsAfterGeneration(m) ==
    /\ task[m].pc = "cache_set"
    /\ task'[m].pc # "cache_set"

\* m has stored the answer a under its key
Populated(m, a) ==
    \E i \in Returned(m, "cache_set") : Log(m)[i].val = Some(a)

\* C3: on a miss followed by a generation call that succeeds with a,
\* get_answer returns a and a cache read under the key yields a from then
\* on, until the entry expires.
C3_CachePopulation ==
    [][\A m \in Msgs :
         /\ ReturnsAfterGeneration(m) =>
              /\ task'[m].answer = task[m].answer
              /\ task'[m].pc = "synthesize"
              /\ (RedisGet(task[m].redis_key))' = Some(Encode(task[m].answer))
         /\ \A a \in Answers :
              (Populated(m, a) /\ RedisGet(task[m].redis_key) = Some(Encode(a))) =>
                  (RedisGet(task[m].redis_key))' \in {Some(Encode(a)), None}
      ]_vars

(* ------------------------------- C4 ------------------------------------ *)

\* C4: when the generation call of a message raises, get_answer returns
\* exactly the fallback string, the step leaves the cache store as it was,
\* and the message makes no cache write under any key.
C4_GenerationFailureFallback ==
    /\ [](\A m \in Msgs :
            Raised(m, "generate") # {} =>
                /\ GetAnswerReturned(m)
                /\ task[m].answer = FallbackAnswer
                /\ Calls(m, "cache_set") = {})
    /\ [][\A m \in Msgs :
            (task[m].pc = "generate" /\ (Raised(m, "generate"))' # {}) =>
                cache' = cache
         ]_vars

\* a message whose generation call raised got the fallback and wrote
\* nothing, and a later message with the same question and key missed again
\* and called the generation service again
C4_Witness ==
    \E m \in Msgs : \E o \in Msgs \ {m} :
        /\ Raised(m, "generate") # {}
        /\ task[m].pc = "done"
        /\ task[m].answer = FallbackAnswer
        /\ task[o].question = task[m].question
        /\ task[o].redis_key = task[m].redis_key
        /\ \E i \in Returned(o, "cache_get") : Log(o)[i].val = None
        /\ Calls(o, "generate") # {}

(* ------------------------------- C5 ------------------------------------ *)

\* the questions the handlers have derived a key for
Derived(m) == task[m].question # ""

\* C5: the key get_answer derives for a question is the same on every call
\* and in every process lifetime.
C5_KeyDeterminism ==
    \A m \in Msgs : \A o \in Msgs :
        (Derived(m) /\ Derived(o) /\ task[m].question = task[o].question) =>
            task[m].redis_key = task[o].redis_key

(* ------------------------------- C6 ------------------------------------ *)

\* the step in which the cache read of m returns
CacheReadReturns(m) ==
    /\ task[m].pc = "cache_get"
    /\ (Returned(m, "cache_get"))' # {}

\* C6: once a message has resolved a question with a successful generation
\* and stored the answer, a later message from any user with the same
\* transcript, read before the entry expires, gets that answer with no
\* generation call.
C6_AnswersSharedAcrossUsers ==
    [][\A m \in Msgs : \A o \in Msgs \ {m} : \A a \in Answers :
         ( /\ CacheReadReturns(o)
           /\ task[m].question = task[o].question
           /\ Populated(m, a)
           /\ RedisGet(task[m].redis_key) = Some(Encode(a)) ) =>
               /\ task'[o].pc = "synthesize"
               /\ task'[o].answer = a
      ]_vars

(* ------------------------------- C7 ------------------------------------ *)

\* the transcription call of m raised, or its result carried no text
TranscriptionFailed(m) ==
    \E i \in Calls(m, "transcribe") : Log(m)[i].val = None

\* C7: when transcription fails the handler sends the transcription apology
\* as a text reply and ends: no cache read or write, no generation call, no
\* synthesis call and no audio send is made for the message.
C7_TranscriptionFailFast ==
    \A m \in Msgs :
        TranscriptionFailed(m) =>
            /\ task[m].pc \in {"reply_transcribe", "done"}
            /\ \A op \in {"cache_get", "generate", "cache_set", "synthesize", "answer_audio"} :
                 Calls(m, op) = {}
            /\ task[m].pc = "reply_transcribe" => Sends(m) = {}
            /\ task[m].pc = "done" =>
                 /\ Sends(m) = {Len(Log(m))}
                 /\ Log(m)[Len(Log(m))] \in
                      {Call("reply", ok, Some(TranscribeApology)) : ok \in BOOLEAN}

\* both kinds of failure have ended with the apology sent
C7_Witness ==
    /\ \E m \in Msgs :
         /\ Raised(m, "transcribe") # {}
         /\ task[m].pc = "done"
         /\ Log(m)[Len(Log(m))] = Call("reply", TRUE, Some(TranscribeApology))
    /\ \E m \in Msgs :
         /\ Returned(m, "transcribe") # {}
         /\ TranscriptionFailed(m)
         /\ task[m].pc = "done"
         /\ Log(m)[Len(Log(m))] = Call("reply", TRUE, Some(TranscribeApology))

(* ------------------------------- C8 ------------------------------------ *)

\* C8: when the text-to-speech call raises, voice_text returns None to
\* handle_voice, which sends the synthesis apology as a text reply and no
\* audio message.
C8_SynthesisFailureContained ==
    \A m \in Msgs :
        Raised(m, "synthesize") # {} =>
            /\ task[m].voice = None
            /\ task[m].pc \in {"reply_voice", "done"}
            /\ Calls(m, "answer_audio") = {}
            /\ task[m].pc = "reply_voice" => Sends(m) = {}
            /\ task[m].pc = "done" =>
                 /\ Sends(m) = {Len(Log(m))}
                 /\ Log(m)[Len(Log(m))] \in
                      {Call("reply", ok, Some(VoiceApology)) : ok \in BOOLEAN}

C8_Witness ==
    \E m \in Msgs :
        /\ Raised(m, "synthesize") # {}
        /\ Returned(m, "generate") # {}
        /\ task[m].pc = "done"
        /\ Log(m)[Len(Log(m))] = Call("reply", TRUE, Some(VoiceApology))

(* ------------------------------- C9 ------------------------------------ *)

\* C9: a generation call that raises does not stop the pipeline: the
\* handler runs the synthesize and reply stages, and when synthesis succeeds
\* its one outbound message is the audio with the fallback string as
\* caption, with no apology text.
C9_GenerationFailureContinues ==
    \A m \in Msgs :
        (Transcribed(m) /\ Raised(m, "generate") # {}) =>
            /\ task[m].pc = "done" => (Calls(m, "synthesize") # {} /\ Sends(m) # {})
            /\ Returned(m, "synthesize") # {} =>
                 /\ task[m].pc \in {"answer_audio", "done"}
                 /\ Calls(m, "reply") = {}
                 /\ task[m].voice # None
                 /\ task[m].pc = "done" =>
                      /\ Sends(m) = {Len(Log(m))}
                      /\ Log(m)[Len(Log(m))].op = "answer_audio"
                      /\ Log(m)[Len(Log(m))].val[2] = FallbackAnswer

C9_Witness ==
    \E m \in Msgs :
        /\ Transcribed(m)
        /\ Raised(m, "generate") # {}
        /\ Returned(m, "synthesize") # {}
        /\ task[m].pc = "done"
        /\ Log(m)[Len(Log(m))].op = "answer_audio"
        /\ Log(m)[Len(Log(m))].ok
        /\ Log(m)[Len(Log(m))].val[2] = FallbackAnswer

(* ------------------------------- C10 ----------------------------------- *)

\* what get_answer returned for m, read off the calls m made: the cached
\* value on a hit, the generated answer when the generation call and the
\* cache write returned, the fallback otherwise
ResolvedAnswer(m) ==
    LET got == Log(m)[CHOOSE i \in Returned(m, "cache_get") : TRUE].val IN
    IF Truthy(got) THEN Decode(got[1])
    ELSE IF Returned(m, "generate") # {} /\ Returned(m, "cache_set") # {}
         THEN Log(m)[CHOOSE i \in Returned(m, "generate") : TRUE].val[1]
         ELSE FallbackAnswer

\* the audio the text-to-speech call of m returned
SynthesizedAudio(m) == Log(m)[CHOOSE i \in Returned(m, "synthesize") : TRUE].val[1]

\* C10: when fetch, transcription and synthesis succeed, the one outbound
\* message of the handler is an audio message carrying the audio synthesis
\* returned for it, with the answer get_answer returned for its own
\* transcript as caption.
C10_SuccessPath ==
    \A m \in Msgs :
        (Returned(m, "get_file") # {} /\ Transcribed(m) /\ Returned(m, "synthesize") # {}) =>
            /\ task[m].pc \in {"answer_audio", "done"}
            /\ task[m].answer = ResolvedAnswer(m)
            /\ task[m].voice = Some([media |-> SynthesizedAudio(m),
                                     caption |-> ResolvedAnswer(m)])
            /\ task[m].pc = "done" =>
                 /\ Sends(m) = {Len(Log(m))}
                 /\ Log(m)[Len(Log(m))].op = "answer_audio"
                 /\ Log(m)[Len(Log(m))].val = <<SynthesizedAudio(m), ResolvedAnswer(m)>>

\* a message has sent its audio with its own generated answer as caption
\* while another message, holding another answer, was about to send its own
C10_Witness ==
    \E m \in Msgs : \E o \in Msgs \ {m} :
        /\ task[m].pc = "done"
        /\ \E i \in Returned(m, "generate") : Log(m)[i].val = Some("4")
        /\ Log(m)[Len(Log(m))].op = "answer_audio"
        /\ Log(m)[Len(Log(m))].ok
        /\ Log(m)[Len(Log(m))].val[2] = "4"
        /\ task[o].pc = "answer_audio"
        /\ task[o].answer # "4"

(* ------------------------------- C11 ----------------------------------- *)

\* the step in which an external call of m raises
CallRaises(m) ==
    /\ Len(task'[m].log) = Len(task[m].log) + 1
    /\ ~task'[m].log[Len(task'[m].log)].ok

\* where handle_voice stands after a call of its own has raised: ended, or
\* on its way to the apology or to the synthesize stage
AfterRaise == {"done", "reply_transcribe", "synthesize", "reply_voice"}

\* C11: whatever calls of a voice message raise (fetch, transcription, cache
\* read, generation, cache write, synthesis, any send), no handler ever
\* leaves by an exception that reaches the dispatcher; a call that raises
\* in the fetch, the cache read or a send ends the handler; and the step in
\* which a call raises changes nothing but that handler's own state.
C11_FaultBarrier ==
    /\ [](\A m \in Msgs :
            /\ task[m].pc # "raised"
            /\ (\E op \in {"get_file", "cache_get", "reply", "answer_audio"} :
                  Raised(m, op) # {}) => task[m].pc = "done")
    /\ [][\A m \in Msgs :
            CallRaises(m) =>
                /\ task'[m].pc \in AfterRaise
                /\ \A o \in Msgs \ {m} : task'[o] = task[o]
                /\ cache' = cache
                /\ hashfn' = hashfn
         ]_vars

\* one message had its cache write, its synthesis and the send of the
\* apology raise and has ended; the other was handled to a delivered audio
C11_Witness ==
    \E m \in Msgs : \E o \in Msgs \ {m} :
        /\ Raised(m, "cache_set") # {}
        /\ Raised(m, "synthesize") # {}
        /\ Raised(m, "reply") # {}
        /\ task[m].pc = "done"
        /\ task[o].pc = "done"
        /\ Returned(o, "answer_audio") # {}

(* ------------------- one process lifetime, with hangs ------------------ *)

\* the awaited call of m never returns: no timeout is set on any call, so
\* the coroutine stays suspended at its await
Hang(m) ==
    /\ InFlight(m)
    /\ task[m].pc # "hung"
    /\ task' = [task EXCEPT ![m] = [@ EXCEPT !.pc = "hung"]]
    /\ UNCHANGED <<hashfn, cache>>

\* the awaited call of m completes, by returning or by raising, and the
\* coroutine runs to its next await
HandlerStep(m) ==
    \/ StartReply(m)
    \/ GetFileOk(m)
    \/ GetFileRaises(m)
    \/ TranscribeOk(m)
    \/ TranscribeRaises(m)
    \/ ReplyTranscribeApology(m)
    \/ CacheGetOk(m)
    \/ CacheGetRaises(m)
    \/ GenerateOk(m)
    \/ GenerateRaises(m)
    \/ CacheSetOk(m)
    \/ CacheSetRaises(m)
    \/ SynthesizeOk(m)
    \/ SynthesizeRaises(m)
    \/ AnswerAudio(m)
    \/ ReplyVoiceApology(m)

NextLive ==
    \/ Tick
    \/ \E m \in Msgs : ReceiveStart(m)
    \/ \E m \in Msgs : ReceiveVoice(m)
    \/ \E m \in Msgs : HandlerStep(m)
    \/ \E m \in Msgs : Hang(m)

\* the event loop resumes every coroutine whose awaited call has completed:
\* a handler whose call is not hung takes its next step
SpecLive ==
    /\ Init
    /\ [][NextLive]_vars
    /\ \A m \in Msgs : WF_vars(HandlerStep(m))

(* ------------------------------- C12 ----------------------------------- *)

Hung(m) == task[m].pc = "hung"

\* C12: while a call of one message never returns, every other message in
\* flight whose own calls all complete is handled to its end.
C12_HungCallStallsOnlyItsMessage ==
    \A a \in Msgs : \A b \in Msgs \ {a} :
        (Hung(a) /\ InFlight(b) /\ ~Hung(b)) ~> (task[b].pc = "done" \/ Hung(b))

\* a message hangs in its generation call; the other, received with the
\* first one in flight, was handled to a delivered audio
C12_Witness ==
    \E a \in Msgs : \E b \in Msgs \ {a} :
        /\ Hung(a)
        /\ Calls(a, "cache_get") # {}
        /\ Calls(a, "generate") = {}
        /\ task[b].pc = "done"
        /\ Returned(b, "answer_audio") # {}

(* ------------------------------- C13 ----------------------------------- *)

\* m is a /start command: it was handed to start(), not to handle_voice(),
\* whose first call is always the fetch
StartCommand(m) ==
    \/ task[m].pc = "start_reply"
    \/ (task[m].pc \notin {"idle", "get_file", "hung"} /\ Calls(m, "get_file") = {})

\* C13: handling /start makes one call, the send of the fixed greeting as a
\* text reply, and no other (no fetch, transcription, cache access,
\* generation, synthesis or audio send); whether that send returns or
\* raises, the handler ends without raising.
C13_StartCommand ==
    \A m \in Msgs :
        StartCommand(m) =>
            /\ task[m].pc \in {"start_reply", "done"}
            /\ task[m].pc = "start_reply" => Log(m) = <<>>
            /\ task[m].pc = "done" =>
                 /\ Len(Log(m)) = 1
                 /\ Log(m)[1] \in {Call("reply", ok, Some(Greeting)) : ok \in BOOLEAN}
            /\ task[m].question = ""
            /\ task[m].voice = None

\* one /start was answered with the greeting, and another whose send raised
\* has ended too
C13_Witness ==
    \E m \in Msgs : \E o \in Msgs \ {m} :
        /\ StartCommand(m)
        /\ task[m].pc = "done"
        /\ Log(m) = <<Call("reply", TRUE, Some(Greeting))>>
        /\ StartCommand(o)
        /\ task[o].pc = "done"
        /\ Log(o) = <<Call("reply", FALSE, Some(Greeting))>>

(* ------------------------------- C14 ----------------------------------- *)

\* the step in which the cache write of m is carried out
CacheWrite(m) ==
    /\ task[m].pc = "cache_set"
    /\ (Returned(m, "cache_set"))' # {}

\* the key of m holds the unexpired value that another message with the
\* same question stored under it
HoldsStoredAnswer(m) ==
    \E o \in Msgs \ {m} : \E a \in Answers :
        /\ task[o].question = task[m].question
        /\ task[o].redis_key = task[m].redis_key
        /\ Populated(o, a)
        /\ RedisGet(task[m].redis_key) = Some(Encode(a))

\* C14: once a value has been stored under a question's key and has not
\* expired, no later cache write to that key is made, in any interleaving.
C14_EntryNeverOverwritten ==
    [][\A m \in Msgs :
         CacheWrite(m) => ~HoldsStoredAnswer(m)
      ]_vars

(* ------------------------------- C15 ----------------------------------- *)

\* the place of a call in the pipeline: fetch, transcribe, resolve (cache
\* read, generation, cache write), synthesize, reply
Stage(op) ==
    CASE op = "get_file" -> 1
      [] op = "transcribe" -> 2
      [] op = "cache_get" -> 3
      [] op = "generate" -> 4
      [] op = "cache_set" -> 5
      [] op = "synthesize" -> 6
      [] op \in {"reply", "answer_audio"} -> 7

\* the call the handler is suspended in
PendingStage(pc) ==
    CASE pc \in {"reply_transcribe", "reply_voice", "start_reply"} -> 7
      [] OTHER -> Stage(pc)

\* the call cur may be issued once the call prev has completed this way
Follows(prev, cur) ==
    CASE cur = "transcribe" -> prev.op = "get_file" /\ prev.ok
      [] cur = "cache_get" -> prev.op = "transcribe" /\ prev.ok /\ prev.val # None
      [] cur = "generate" -> prev.op = "cache_get" /\ prev.ok /\ ~Truthy(prev.val)
      [] cur = "cache_set" -> prev.op = "generate" /\ prev.ok
      [] cur = "synthesize" ->
            \/ prev.op = "cache_get" /\ prev.ok /\ Truthy(prev.val)
            \/ prev.op = "generate" /\ ~prev.ok
            \/ prev.op = "cache_set"
      [] cur = "answer_audio" -> prev.op = "synthesize" /\ prev.ok
      [] cur = "reply" ->
            \/ prev.op = "transcribe" /\ (~prev.ok \/ prev.val = None)
            \/ prev.op = "synthesize" /\ ~prev.ok
      [] OTHER -> FALSE

\* C15: the calls of one voice message are made in the order fetch,
\* transcribe, cache read, generation, cache write, synthesize, reply: each
\* call is issued only after the call of the stage before it has completed,
\* and the call the handler is suspended in comes after all it has made.
C15_StagesInOrder ==
    \A m \in Msgs :
        ~StartCommand(m) =>
            /\ \A i \in DOMAIN Log(m) : \A j \in DOMAIN Log(m) :
                 i < j => Stage(Log(m)[i].op) < Stage(Log(m)[j].op)
            /\ \A i \in DOMAIN Log(m) :
                 IF i = 1 THEN Log(m)[i].op = "get_file"
                 ELSE Follows(Log(m)[i - 1], Log(m)[i].op)
            /\ (InFlight(m) /\ Log(m) # <<>>) =>
                 /\ Follows(Log(m)[Len(Log(m))],
                            IF task[m].pc \in {"reply_transcribe", "reply_voice"}
                            THEN "reply" ELSE task[m].pc)
                 /\ \A i \in DOMAIN Log(m) :
                      Stage(Log(m)[i].op) < PendingStage(task[m].pc)

\* a message went through all seven calls while the other one, received
\* before the first had ended, is between its generation call and its
\* cache write
C15_Witness ==
    \E m \in Msgs : \E o \in Msgs \ {m} :
        /\ task[m].pc = "done"
        /\ Len(Log(m)) = 7
        /\ Log(m)[5].op = "cache_set"
        /\ Log(m)[7].op = "answer_audio"
        /\ task[o].pc = "cache_set"
        /\ task[o].question = task[m].question

(* ------------------------------- C16 ----------------------------------- *)

\* the calls a handler may make
Ops == {"get_file", "transcribe", "cache_get", "generate", "cache_set",
        "synthesize", "reply", "answer_audio"}

\* C16: while one message is handled, each of fetch, transcription, cache
\* read, generation, cache write and synthesis is called at most once and
\* at most one send is attempted; a call that raised is not made again.
C16_NoRetries ==
    \A m \in Msgs :
        /\ \A op \in Ops : Cardinality(Calls(m, op)) <= 1
        /\ Cardinality(Sends(m)) <= 1
        /\ \A i \in DOMAIN Log(m) : Log(m)[i].op \in Ops
        /\ \A op \in Ops :
             Raised(m, op) # {} =>
                 (task[m].pc # op /\ Returned(m, op) = {})

\* a message whose generation call, synthesis call and send all raised has
\* ended with each of them made once
C16_Witness ==
    \E m \in Msgs :
        /\ task[m].pc = "done"
        /\ Raised(m, "generate") # {}
        /\ Raised(m, "synthesize") # {}
        /\ Raised(m, "reply") # {}
        /\ Len(Log(m)) = 6

(* ------------------------------- C17 ----------------------------------- *)

\* the fetch, the cache read, the cache write or a send of m raised
PlumbingFailed(m) ==
    \E op \in {"get_file", "cache_get", "cache_set", "reply", "answer_audio"} :
        Raised(m, op) # {}

\* the one outbound message of m: an audio reply, the transcription apology
\* or the synthesis apology
OneReply(m) ==
    /\ Cardinality(Sends(m)) = 1
    /\ \A i \in Sends(m) :
         /\ Log(m)[i].ok
         /\ \/ Log(m)[i].op = "answer_audio"
            \/ Log(m)[i] = Call("reply", TRUE, Some(TranscribeApology))
            \/ Log(m)[i] = Call("reply", TRUE, Some(VoiceApology))

\* C17: every voice message whose calls all complete is handled to its
\* end, and one whose fetch, cache read, cache write and send did not raise
\* has then received exactly one outbound message (the audio reply, the
\* transcription apology or the synthesis apology), whatever transcription,
\* generation and synthesis returned or raised.
C17_ReplyCompleteness ==
    /\ \A m \in Msgs :
         (task[m].pc = "get_file") ~> (task[m].pc = "done" \/ Hung(m))
    /\ [](\A m \in Msgs :
            (task[m].pc = "done" /\ ~StartCommand(m) /\ ~PlumbingFailed(m)) =>
                OneReply(m))

\* one message got the canned audio after its generation call raised, the
\* other the transcription apology
C17_Witness ==
    \E m \in Msgs : \E o \in Msgs \ {m} :
        /\ task[m].pc = "done"
        /\ ~PlumbingFailed(m)
        /\ Raised(m, "generate") # {}
        /\ Returned(m, "answer_audio") # {}
        /\ OneReply(m)
        /\ task[o].pc = "done"
        /\ ~PlumbingFailed(o)
        /\ TranscriptionFailed(o)
        /\ OneReply(o)

====
